---- MODULE Spec2Model ----
(***************************************************************************)
(* TraceX: layer-by-layer trace linking (src/link) and graph-based         *)
(* coverage / gap analysis (src/analyze).                                  *)
(*                                                                         *)
(* Numbers.  Signals (embedding similarity, keyword score, name score, id  *)
(* boost) and scoring weights are integers in hundredths (0.45 is 45).     *)
(* Scores, thresholds and confidences are integers in ten-thousandths      *)
(* (0.6 is 6000, 1.0 is 10000), so that weight * signal is exact.          *)
(***************************************************************************)
EXTENDS Integers, Sequences, FiniteSets, TLC

VARIABLES
    children,     \* artifact['children'] of every SYSTEM_REQ
    embedded,     \* the artifacts the indexer holds an embedding for
    impl,         \* "hierarchical" (HierarchicalLinker) or "legacy" (LinkManager)
    groq_client,  \* TRUE when an LLM client is configured
    links,        \* the Link collection (self.links), a sequence
    stage,        \* the linker's position: which layer is being linked
    src_idx,      \* index of the current source in the layer's source list
    phase,        \* "find": before _find_candidates, "select": candidates found
    candidates,   \* the candidate list of the current source
    lastCall,     \* the last adjudicator call: source, submitted, outcome, response
    input,        \* the argument of the analysis operation (chain, start node, ...)
    op,           \* the analysis operation applied last ("none" before any)
    output        \* what that operation returned

vars == << children, embedded, impl, groq_client, links, stage, src_idx, phase,
           candidates, lastCall, input, op, output >>

linkVars == << children, embedded, impl, groq_client, links, stage, src_idx, phase,
               candidates, lastCall >>
anaVars == << input, op, output >>

-----------------------------------------------------------------------------
(* Bounds of the model *)

\* longest selected_targets list an adjudicator response carries
MaxSelected == 2
\* longest chain handed to classify_chain
MaxChainLen == 6
\* number of nested dfs frames beyond which the interpreter raises
\* RecursionError; more than there are artifacts, so that only a walk that
\* comes back to a node already on its path gets there
RecursionLimit == 12

(* Program constants *)

\* candidates[:10]
LlmTopN == 10
\* candidates[:3]
FallbackTopN == 3
\* if confidence >= 0.6
LlmConfFloor == 6000
\* 'confirmed' if confidence >= 0.7
ConfirmedFloor == 7000
\* _find_candidates(..., top_k=20)
HierTopK == 20
\* find_candidates(..., top_k=10)
LegacyTopK == 10

One == 100 * 100

Min(a, b) == IF a <= b THEN a ELSE b

Range(s) == { s[i] : i \in 1..Len(s) }

Take(s, n) == SubSeq(s, 1, Min(n, Len(s)))

-----------------------------------------------------------------------------
(* Artifacts.  The dictionary is in insertion order: the parser's rows     *)
(* (system requirements, HLRs, LLRs, variables), then the decomposed       *)
(* children added by decompose_all_system_requirements.                    *)

ArtifactOrder ==
    << "SYS-001", "SYS-002", "SYS-003",
       "HLR-001-A", "HLR-001-B", "HLR-002-A", "HLR-003",
       "LLR-001-A-1", "VAR-007",
       "SYS-001-A", "SYS-001-B" >>

ArtifactIds == Range(ArtifactOrder)

TypeOf(id) ==
    CASE id \in {"SYS-001", "SYS-002", "SYS-003"} -> "SYSTEM_REQ"
      [] id \in {"SYS-001-A", "SYS-001-B"} -> "SYSTEM_REQ_DECOMPOSED"
      [] id \in {"HLR-001-A", "HLR-001-B", "HLR-002-A", "HLR-003"} -> "HLR"
      [] id \in {"LLR-001-A-1"} -> "LLR"
      [] id \in {"VAR-007"} -> "CODE_VAR"
      [] OTHER -> "UNKNOWN"

ArtifactTypes == {"SYSTEM_REQ", "SYSTEM_REQ_DECOMPOSED", "HLR", "LLR", "CODE_VAR"}

\* an id the adjudicator may name although no such artifact exists
UnknownId == "HLR-999"

\* [a for a in self.artifacts.values() if a['type'] == source_type]
RECURSIVE FilterSeq(_, _)
FilterSeq(s, S) ==
    IF s = << >> THEN << >>
    ELSE IF Head(s) \in S THEN << Head(s) >> \o FilterSeq(Tail(s), S)
         ELSE FilterSeq(Tail(s), S)

OfType(t) == FilterSeq(ArtifactOrder, { a \in ArtifactIds : TypeOf(a) = t })

\* every artifact has an embedding
AllEmbedded(id) == TRUE

\* EmbeddingIndexer.get_embedding(artifact_id) is not None
HasEmbedding(id) == id \in embedded

-----------------------------------------------------------------------------
(* IDHierarchyResolver: extract_id_hierarchy, compute_id_relationship_boost *)
(* An id is read through its '-'-separated tokens.                         *)

Tokens(id) ==
    CASE id = "SYS-001" -> << "SYS", "001" >>
      [] id = "SYS-002" -> << "SYS", "002" >>
      [] id = "SYS-003" -> << "SYS", "003" >>
      [] id = "SYS-001-A" -> << "SYS", "001", "A" >>
      [] id = "SYS-001-B" -> << "SYS", "001", "B" >>
      [] id = "HLR-001-A" -> << "HLR", "001", "A" >>
      [] id = "HLR-001-B" -> << "HLR", "001", "B" >>
      [] id = "HLR-002-A" -> << "HLR", "002", "A" >>
      [] id = "HLR-003" -> << "HLR", "003" >>
      [] id = "HLR-999" -> << "HLR", "999" >>
      [] id = "LLR-001-A-1" -> << "LLR", "001", "A", "1" >>
      [] id = "VAR-007" -> << "VAR", "007" >>
      [] id = "sys-001" -> << "sys", "001" >>
      [] id = "SYS_REQ-001" -> << "SYS_REQ", "001" >>
      [] id = "SYS-001-A-1-2" -> << "SYS", "001", "A", "1", "2" >>
      [] OTHER -> << id >>

\* [A-Z]+
IsUpper(t) == t \in {"SYS", "HLR", "LLR", "VAR", "A", "B"}
\* \d+
IsDigits(t) == t \in {"001", "002", "003", "007", "999", "1"}

NoRef == << >>

Last(s) == s[Len(s)]

\* re.match(r'^([A-Z]+)-(\d+)(?:-([A-Z]+))?(?:-(\d+))?$', artifact_id)
IdMatch(id) ==
    LET t == Tokens(id)
        n == Len(t)
        head == n >= 2 /\ IsUpper(t[1]) /\ IsDigits(t[2])
    IN  CASE head /\ n = 2 ->
                [ok |-> TRUE, prefix |-> t[1], num |-> t[2], letter |-> "", subnum |-> ""]
          [] head /\ n = 3 /\ IsUpper(t[3]) ->
                [ok |-> TRUE, prefix |-> t[1], num |-> t[2], letter |-> t[3], subnum |-> ""]
          [] head /\ n = 3 /\ IsDigits(t[3]) ->
                [ok |-> TRUE, prefix |-> t[1], num |-> t[2], letter |-> "", subnum |-> t[3]]
          [] head /\ n = 4 /\ IsUpper(t[3]) /\ IsDigits(t[4]) ->
                [ok |-> TRUE, prefix |-> t[1], num |-> t[2], letter |-> t[3], subnum |-> t[4]]
          [] OTHER ->
                [ok |-> FALSE, prefix |-> "", num |-> "", letter |-> "", subnum |-> ""]

extract_id_hierarchy(id) ==
    LET m == IdMatch(id)
    IN  IF ~m.ok
        THEN [base |-> Tokens(id), suffix |-> "", parent_ref |-> NoRef]
        ELSE [base |-> << m.prefix, m.num >>,
              suffix |-> IF m.letter # "" THEN m.letter ELSE m.subnum,
              parent_ref |->
                  IF m.prefix = "HLR" /\ m.letter # ""
                  THEN << "SYS", m.num >>
                  ELSE IF m.prefix = "LLR" /\ m.letter # ""
                       THEN << "HLR", m.num, m.letter >>
                       ELSE NoRef]

compute_id_relationship_boost(source_id, target_id) ==
    LET source_info == extract_id_hierarchy(source_id)
        target_info == extract_id_hierarchy(target_id)
    IN  IF \/ source_info.parent_ref = Tokens(target_id)
           \/ target_info.parent_ref = Tokens(source_id)
        THEN 30
        ELSE IF Last(source_info.base) = Last(target_info.base)
             THEN 20
             ELSE 0

-----------------------------------------------------------------------------
(* SignalScorer and QualityGate *)

\* compute_combined_score's default weights (used by HierarchicalLinker,
\* which passes no weights)
DefaultWeights == [embedding |-> 45, keyword |-> 25, quantity |-> 15, name |-> 15]
\* config.linking.weights (used by LinkManager)
ConfigWeights == [embedding |-> 35, keyword |-> 35, quantity |-> 15, name |-> 15]

\* config.linking.layer_thresholds.get(layer_key, confidence_threshold)
LayerThreshold(source_type, target_type) ==
    CASE source_type = "SYSTEM_REQ_DECOMPOSED" /\ target_type = "HLR" -> 2800
      [] source_type = "HLR" /\ target_type = "LLR" -> 2500
      [] source_type = "LLR" /\ target_type = "CODE_VAR" -> 2300
      [] OTHER -> 2500

\* config.linking.quality_filters
MinTextOverlap == 5
MinCombinedSignals == 2
MaxLinksPerSource == 15

\* the weighted sum and the boost, without the cap
UnclampedScore(emb, kw, qty, name, id_boost, weights) ==
    weights.embedding * emb + weights.keyword * kw
    + weights.quantity * (IF qty THEN 100 ELSE 0)
    + weights.name * name
    + 100 * id_boost

compute_combined_score(emb, kw, qty, name, id_boost, weights) ==
    Min(One, weights.embedding * emb + weights.keyword * kw
             + weights.quantity * (IF qty THEN 100 ELSE 0)
             + weights.name * name
             + 100 * id_boost)

Count(bs) == Cardinality({ i \in 1..Len(bs) : bs[i] })

HasStrongSignal(emb, kw) ==
    kw > 20 \/ emb > 30 \/ (emb > 20 /\ kw > 12)

ModerateSignals(emb, kw, qty, name, id_boost) ==
    Count(<< emb > 12, kw > 5, qty, name > 10, id_boost > 5 >>)

\* HierarchicalLinker._passes_quality_filters
HierPassesQualityFilters(combined, emb, kw, qty, name, id_boost) ==
    IF combined < 100 * MinTextOverlap THEN FALSE
    ELSE IF HasStrongSignal(emb, kw) THEN TRUE
    ELSE ModerateSignals(emb, kw, qty, name, id_boost) >= MinCombinedSignals

\* LinkManager._passes_quality_filters
LegacyPassesQualityFilters(emb, kw, qty, name, id_boost) ==
    IF emb < MinTextOverlap THEN FALSE
    ELSE IF HasStrongSignal(emb, kw) THEN TRUE
    ELSE IF ModerateSignals(emb, kw, qty, name, id_boost) >= MinCombinedSignals THEN TRUE
    ELSE id_boost > 10 /\ ModerateSignals(emb, kw, qty, name, id_boost) >= 1


-----------------------------------------------------------------------------
(* The similarity oracle and CandidateGenerator *)

\* config.linking.embedding_threshold
EmbeddingThreshold == 10

Absent == [present |-> FALSE, emb |-> 0, kw |-> 0, qty |-> FALSE, name |-> 0]

Sig(e, k, q, n) == [present |-> TRUE, emb |-> e, kw |-> k, qty |-> q, name |-> n]

\* the signal tuples a (source, target) pair may show: what the index returns
\* for the pair (emb) and what compute_keyword_score, compute_quantity_match
\* and compute_variable_name_match find in the two texts
SigOptions ==
    { Absent,
      Sig(12, 0, FALSE, 0),       \* one weak signal
      Sig(100, 0, FALSE, 0),      \* the same text, nothing else
      Sig(100, 100, TRUE, 100) }  \* everything matches

\* candidates.sort(key=score, reverse=True): stable, descending
InsertDesc(sorted, x) ==
    LET k == Cardinality({ i \in 1..Len(sorted) : sorted[i].score >= x.score })
    IN  SubSeq(sorted, 1, k) \o << x >> \o SubSeq(sorted, k + 1, Len(sorted))

RECURSIVE SortDesc(_)
SortDesc(s) ==
    IF s = << >> THEN << >>
    ELSE InsertDesc(SortDesc(SubSeq(s, 1, Len(s) - 1)), s[Len(s)])

\* the hits as (id, score) pairs, nearest first (ties in dictionary order)
ByEmb(ids, sig) ==
    SortDesc([ i \in 1..Len(ids) |-> [id |-> ids[i], score |-> sig[ids[i]].emb] ])

\* EmbeddingIndexer.search_similar: the neighbours at or above the threshold,
\* nearest first; the query's own vector is in the index and is its own
\* nearest neighbour.  sig gives the pair signals of every other artifact.
SearchSimilar(source_id, sig, top_k) ==
    Take(<< [id |-> source_id, score |-> 100] >>
         \o ByEmb(FilterSeq(ArtifactOrder,
                    { a \in DOMAIN sig \ { source_id } :
                        sig[a].present /\ sig[a].emb >= EmbeddingThreshold }),
                  sig),
         top_k)

MkCandidate(source_id, target_id, sg, name_score, id_boost, weights) ==
    [target_id |-> target_id,
     score |-> compute_combined_score(sg.emb, sg.kw, sg.qty, name_score, id_boost, weights),
     emb |-> sg.emb, kw |-> sg.kw, qty |-> sg.qty,
     name |-> name_score, id_boost |-> id_boost]

\* the elements of s whose flag in keep is set, in order
RECURSIVE SelectBy(_, _)
SelectBy(s, keep) ==
    IF Len(s) = 0 THEN << >>
    ELSE (IF keep[1] THEN << s[1] >> ELSE << >>) \o SelectBy(Tail(s), Tail(keep))

\* every neighbour, of whatever type
AnyType(similar, target_type) == similar

\* "if not target or target['type'] != target_type: continue"
HierTyped(similar, target_type) ==
    SelectBy(similar, [ i \in 1..Len(similar) |-> TypeOf(similar[i].id) = target_type ])

\* "if candidate_id == source_id: continue" and the type test
LegacyTyped(similar, source_id, target_type) ==
    SelectBy(similar, [ i \in 1..Len(similar) |->
        similar[i].id # source_id /\ TypeOf(similar[i].id) = target_type ])

\* the signals and the combined score of every neighbour that is left
ScoreAll(source_id, typed, sig, with_name, weights) ==
    [ i \in 1..Len(typed) |->
        MkCandidate(source_id, typed[i].id, sig[typed[i].id],
                    IF with_name THEN sig[typed[i].id].name ELSE 0,
                    compute_id_relationship_boost(source_id, typed[i].id),
                    weights) ]

HierPasses(c, threshold) ==
    /\ HierPassesQualityFilters(c.score, c.emb, c.kw, c.qty, c.name, c.id_boost)
    /\ c.score >= threshold

HierKept(scored, threshold) ==
    SelectBy(scored, [ i \in 1..Len(scored) |-> HierPasses(scored[i], threshold) ])

LegacyPasses(c) ==
    LegacyPassesQualityFilters(c.emb, c.kw, c.qty, c.name, c.id_boost)

LegacyKept(scored) ==
    SelectBy(scored, [ i \in 1..Len(scored) |-> LegacyPasses(scored[i]) ])

\* HierarchicalLinker._find_candidates(source, target_type, threshold, top_k)
HierFindCandidatesOf(source_id, target_type, threshold, sig) ==
    IF ~HasEmbedding(source_id) THEN << >>
    ELSE Take(SortDesc(HierKept(
                 ScoreAll(source_id,
                          HierTyped(SearchSimilar(source_id, sig, 2 * HierTopK), target_type),
                          sig,
                          TypeOf(source_id) = "LLR" /\ target_type = "CODE_VAR",
                          DefaultWeights),
                 threshold)),
              HierTopK)

\* LinkManager.find_candidates(source_id, target_type, top_k)
LegacyFindCandidatesOf(source_id, target_type, sig) ==
    IF ~HasEmbedding(source_id) THEN << >>
    ELSE Take(SortDesc(LegacyKept(
                 ScoreAll(source_id,
                          LegacyTyped(SearchSimilar(source_id, sig, 3 * LegacyTopK),
                                      source_id, target_type),
                          sig,
                          target_type = "CODE_VAR",
                          ConfigWeights))),
              Min(LegacyTopK, MaxLinksPerSource))

-----------------------------------------------------------------------------
(* Link records and the LLM adjudicator *)

\* create_link
create_link(source_id, target_id, link_type, confidence, method, reasoning) ==
    [source_id |-> source_id, target_id |-> target_id,
     link_type |-> link_type, confidence |-> confidence,
     status |-> IF confidence >= ConfirmedFloor THEN "confirmed" ELSE "candidate",
     method |-> method, llm_reasoning |-> reasoning]

\* the confidences an adjudicator response may carry: below the floor, the
\* floor itself, and a number above 1
RespConfidences == { 5000, 6000, 15000 }

\* What the adjudicator call can come to:
\*   "raise"     the API call raises
\*   "badjson"   json.loads raises JSONDecodeError after the repairs
\*   "malformed" the JSON parses but is not what the code indexes (not an
\*               object, an entry without 'confidence'): handling it raises
\*               inside the try block
\*   "parsed"    an object whose selected_targets is the list given
Outcomes == { "raise", "badjson", "malformed", "parsed" }

RECURSIVE SeqsUpTo(_, _)
SeqsUpTo(S, n) ==
    IF n = 0 THEN { << >> }
    ELSE LET shorter == SeqsUpTo(S, n - 1)
         IN  shorter \cup { Append(s, x) : s \in { t \in shorter : Len(t) = n - 1 }, x \in S }

\* the targets a response may name: the best and the worst of the submitted
\* candidates, and an id that was not submitted
RespTargets(submitted) ==
    { submitted[1].target_id, submitted[Len(submitted)].target_id, UnknownId }

Responses(submitted) ==
    SeqsUpTo([target_id : RespTargets(submitted), confidence : RespConfidences],
             MaxSelected)

\* a fallback that keeps every submitted candidate instead of the first three
FallbackKeepsAll(submitted, reason) ==
    [ i \in 1..Len(submitted) |->
        [target_id |-> submitted[i].target_id,
         confidence |-> submitted[i].score,
         reasoning |-> reason] ]

Fallback(submitted, reason) ==
    [ i \in 1..Min(FallbackTopN, Len(submitted)) |->
        [target_id |-> submitted[i].target_id,
         confidence |-> submitted[i].score,
         reasoning |-> reason] ]

\* a validation loop that falls back to the first three candidates when no
\* selected target passes the floor
RECURSIVE PassingOrTopThree(_, _)
PassingOrTopThree(selected, submitted) ==
    IF selected = << >>
    THEN [ i \in 1..Min(FallbackTopN, Len(submitted)) |->
             [target_id |-> submitted[i].target_id,
              confidence |-> submitted[i].score,
              reasoning |-> "LLM unavailable, using multi-signal match"] ]
    ELSE IF Head(selected).confidence >= LlmConfFloor
         THEN << [target_id |-> Head(selected).target_id,
                  confidence |-> Head(selected).confidence,
                  reasoning |-> "llm reasoning"] >>
         ELSE PassingOrTopThree(Tail(selected), submitted)

\* the loop over parsed['selected_targets']
RECURSIVE ValidSelected(_, _)
ValidSelected(selected, submitted) ==
    IF selected = << >> THEN << >>
    ELSE LET sel == Head(selected)
             rest == ValidSelected(Tail(selected), submitted)
         IN  IF /\ sel.confidence >= LlmConfFloor
                /\ \E i \in 1..Len(submitted) : submitted[i].target_id = sel.target_id
             THEN << [target_id |-> sel.target_id,
                      confidence |-> sel.confidence,
                      reasoning |-> "llm reasoning"] >> \o rest
             ELSE rest

\* a selection that looks the named targets up among all the candidates
SelectFromAll(cands, outcome, response) == ValidSelected(response, cands)

\* HierarchicalLinker._llm_select_targets
LlmSelectTargets(cands, outcome, response) ==
    LET submitted == Take(cands, LlmTopN)
    IN  CASE outcome = "badjson" ->
                Fallback(submitted, "JSON parse failed, using multi-signal match")
          [] outcome \in {"raise", "malformed"} ->
                Fallback(submitted, "LLM unavailable, using multi-signal match")
          [] OTHER -> ValidSelected(response, submitted)

\* the else branch of _link_layer: every candidate is accepted
AcceptAll(cands) ==
    [ i \in 1..Len(cands) |->
        [target_id |-> cands[i].target_id,
         confidence |-> cands[i].score,
         reasoning |-> "Multi-signal match"] ]


-----------------------------------------------------------------------------
(* LayerLinker: HierarchicalLinker.establish_all_links and                 *)
(* LinkManager.establish_links, one step per oracle interaction            *)

Layers == << "sys_to_hlr", "hlr_to_llr", "llr_to_var" >>

SourceType(st) ==
    CASE st = "sys_to_hlr" -> "SYSTEM_REQ_DECOMPOSED"
      [] st = "hlr_to_llr" -> "HLR"
      [] st = "llr_to_var" -> "LLR"

TargetType(st) ==
    CASE st = "sys_to_hlr" -> "HLR"
      [] st = "hlr_to_llr" -> "LLR"
      [] st = "llr_to_var" -> "CODE_VAR"

NextStage(st) ==
    CASE st = "decomposition" -> "sys_to_hlr"
      [] st = "sys_to_hlr" -> "hlr_to_llr"
      [] st = "hlr_to_llr" -> "llr_to_var"
      [] st = "llr_to_var" -> "done"

Sources(st) == OfType(SourceType(st))

InLayer == stage \in Range(Layers)

CurrentSource == Sources(stage)[src_idx]

\* the for loop moves to the next source, or the linker to the next layer
Advance ==
    IF src_idx < Len(Sources(stage))
    THEN /\ src_idx' = src_idx + 1
         /\ stage' = stage
    ELSE /\ src_idx' = 1
         /\ stage' = NextStage(stage)

\* the exceptions chat.completions.create may raise, by the words of their
\* message: the three transient kinds and any other
ApiErrors == { "rate limit", "timeout", "connection", "other" }

\* _llm_select_targets sends one request: the create call stands directly in
\* the try block, and rate_limit_decorator only spaces the calls out
RequestsPerSelection == 1

NoCall == [source |-> "", submitted |-> << >>, outcome |-> "none", response |-> << >>,
           error |-> "", requests |-> 0]

\* a variable may also be a fair embedding hit and nothing else (tried on
\* the last layer only, which keeps the number of runs small)
SigOptionsFor(target_type) ==
    IF target_type = "CODE_VAR" THEN SigOptions \cup { Sig(50, 0, FALSE, 0) } ELSE SigOptions

\* the values the pair signals of the targets of a layer may take; the index
\* holds the artifacts of every type, so the artifacts of the other types
\* are neighbours too, here always weak ones, and the source is its own.
\* For a source without an embedding, and for two embedded sources of one
\* layer, the two extremes are tried: no target matches, every target
\* matches in everything.
SigChoices(source_id, target_type) ==
    LET targets == { a \in ArtifactIds : TypeOf(a) = target_type }
    IN  { [ a \in ArtifactIds |->
              IF a \in targets THEN f[a]
              ELSE IF a = source_id THEN Sig(100, 100, TRUE, 100)
              ELSE Sig(12, 0, FALSE, 0) ] :
          f \in IF /\ HasEmbedding(source_id)
                   /\ \A a \in embedded : TypeOf(a) = TypeOf(source_id) => a = source_id
                THEN [ targets -> SigOptionsFor(target_type) ]
                ELSE [ targets -> { Absent } ] \cup [ targets -> { Sig(100, 100, TRUE, 100) } ] }

RECURSIVE Flatten(_)
Flatten(ss) == IF ss = << >> THEN << >> ELSE Head(ss) \o Flatten(Tail(ss))

\* the decomposition loop of either linker: one 'decomposes' link per entry
\* of the children list of every SYSTEM_REQ that has children
DecompositionLinks(method) ==
    LET sys == OfType("SYSTEM_REQ")
    IN  Flatten([ i \in 1..Len(sys) |->
            [ j \in 1..Len(children[sys[i]]) |->
                create_link(sys[i], children[sys[i]][j], "decomposes", One, method, "") ] ])

\* HierarchicalLinker._link_decomposition
HierDecomposition ==
    /\ impl = "hierarchical"
    /\ stage = "decomposition"
    /\ links' = links \o DecompositionLinks("deterministic")
    /\ stage' = "sys_to_hlr"
    /\ src_idx' = 1
    /\ UNCHANGED << children, embedded, impl, groq_client, phase, candidates, lastCall >>
    /\ UNCHANGED anaVars

\* establish_all_links passes use_llm=True for every layer
UseLlm(st) == TRUE

\* match_details['method']
MethodTag(use_llm) == IF use_llm THEN "multi-signal + llm" ELSE "multi-signal"

\* the link_type argument of create_link in _link_layer
HierLinkType(st) == "implements"

\* "Create links for selected targets"
HierLinksFor(source_id, selected, st) ==
    [ i \in 1..Len(selected) |->
        create_link(source_id, selected[i].target_id, HierLinkType(st),
                    selected[i].confidence, MethodTag(UseLlm(st)),
                    selected[i].reasoning) ]

\* _link_layer, first half of the loop body: _find_candidates with the
\* threshold lowered to 0.7 of the layer's, and 'continue' on no candidate
HierFindCandidates ==
    /\ impl = "hierarchical"
    /\ InLayer
    /\ phase = "find"
    /\ \E sig \in SigChoices(CurrentSource, TargetType(stage)) :
         candidates' = HierFindCandidatesOf(CurrentSource, TargetType(stage),
             (LayerThreshold(SourceType(stage), TargetType(stage)) * 7) \div 10, sig)
    /\ IF candidates' = << >>
       THEN Advance /\ phase' = "find"
       ELSE phase' = "select" /\ UNCHANGED << stage, src_idx >>
    /\ lastCall' = NoCall
    /\ UNCHANGED << children, embedded, impl, groq_client, links >>
    /\ UNCHANGED anaVars

\* _link_layer, second half, LLM branch: _llm_select_targets and the links
HierSelectLlm ==
    /\ impl = "hierarchical"
    /\ InLayer
    /\ phase = "select"
    /\ UseLlm(stage) /\ groq_client /\ Len(candidates) > 1
    /\ \E outcome \in Outcomes :
       \E response \in (IF outcome = "parsed"
                        THEN Responses(Take(candidates, LlmTopN))
                        ELSE { << >> }) :
       \E error \in (IF outcome = "raise" THEN ApiErrors ELSE { "" }) :
         /\ links' = links \o HierLinksFor(CurrentSource,
                                  LlmSelectTargets(candidates, outcome, response), stage)
         /\ lastCall' = [source |-> CurrentSource,
                         submitted |-> Take(candidates, LlmTopN),
                         outcome |-> outcome, response |-> response,
                         error |-> error, requests |-> RequestsPerSelection]
    /\ Advance
    /\ phase' = "find"
    /\ candidates' = << >>
    /\ UNCHANGED << children, embedded, impl, groq_client >>
    /\ UNCHANGED anaVars

\* _link_layer, second half, else branch: every candidate becomes a link
HierAcceptDirect ==
    /\ impl = "hierarchical"
    /\ InLayer
    /\ phase = "select"
    /\ ~(UseLlm(stage) /\ groq_client /\ Len(candidates) > 1)
    /\ links' = links \o HierLinksFor(CurrentSource, AcceptAll(candidates), stage)
    /\ lastCall' = [source |-> CurrentSource, submitted |-> candidates,
                    outcome |-> "direct", response |-> << >>,
                    error |-> "", requests |-> 0]
    /\ Advance
    /\ phase' = "find"
    /\ candidates' = << >>
    /\ UNCHANGED << children, embedded, impl, groq_client >>
    /\ UNCHANGED anaVars

\* LinkManager.establish_links, step 1
LegacyDecomposition ==
    /\ impl = "legacy"
    /\ stage = "decomposition"
    /\ links' = links \o DecompositionLinks("")
    /\ stage' = "sys_to_hlr"
    /\ src_idx' = 1
    /\ UNCHANGED << children, embedded, impl, groq_client, phase, candidates, lastCall >>
    /\ UNCHANGED anaVars

\* the link_type argument of create_link in establish_links, steps 2 to 4
LegacyLinkType(st) == IF st = "llr_to_var" THEN "references" ELSE "implements"

\* "if score >= layer_threshold"
LegacyAccepted(found, layer_threshold) ==
    SelectBy(found, [ i \in 1..Len(found) |-> found[i].score >= layer_threshold ])

LegacyLinksFor(source_id, accepted, st) ==
    [ i \in 1..Len(accepted) |->
        create_link(source_id, accepted[i].target_id, LegacyLinkType(st),
                    accepted[i].score, "", "") ]

\* LinkManager.establish_links, steps 2 to 4: one source of the layer
LegacyLinkSource ==
    /\ impl = "legacy"
    /\ InLayer
    /\ \E sig \in SigChoices(CurrentSource, TargetType(stage)) :
         links' = links \o LegacyLinksFor(CurrentSource,
                     LegacyAccepted(
                         LegacyFindCandidatesOf(CurrentSource, TargetType(stage), sig),
                         LayerThreshold(SourceType(stage), TargetType(stage))),
                     stage)
    /\ Advance
    /\ UNCHANGED << children, embedded, impl, groq_client, phase, candidates, lastCall >>
    /\ UNCHANGED anaVars

\* the children lists decomposition leaves behind: SYS-001 decomposed in two
\* parts, or in three of which the adjudicator named two with the same suffix
ChildrenChoices ==
    { [s \in Range(OfType("SYSTEM_REQ")) |-> IF s = "SYS-001" THEN c ELSE << >>] :
        c \in { << "SYS-001-A", "SYS-001-B" >>,
                << "SYS-001-A", "SYS-001-B", "SYS-001-A" >> } }

NoAnalysis ==
    /\ input = << >>
    /\ op = "none"
    /\ output = << >>

\* which embeddings the index holds: the rich source of the first scored
\* layer and the LLR, or one source in each of the two lower layers
EmbeddedChoices ==
    { { "SYS-001-A", "LLR-001-A-1" }, { "HLR-001-A", "LLR-001-A-1" } }

InitLink ==
    /\ children \in ChildrenChoices
    /\ embedded \in EmbeddedChoices
    /\ impl \in {"hierarchical", "legacy"}
    /\ groq_client \in BOOLEAN
    /\ links = << >>
    /\ stage = "decomposition"
    /\ src_idx = 1
    /\ phase = "find"
    /\ candidates = << >>
    /\ lastCall = NoCall
    /\ NoAnalysis

NextLink ==
    \/ HierDecomposition
    \/ HierFindCandidates
    \/ HierSelectLlm
    \/ HierAcceptDirect
    \/ LegacyDecomposition
    \/ LegacyLinkSource

SpecLink == InitLink /\ [][NextLink]_vars

\* the same run with both sources of the first scored layer embedded, so that
\* two sources of one layer have candidates
InitLinkTwo ==
    /\ children \in { c \in ChildrenChoices : Len(c["SYS-001"]) = 2 }
    /\ embedded = { "SYS-001-A", "SYS-001-B" }
    /\ impl \in {"hierarchical", "legacy"}
    /\ groq_client \in BOOLEAN
    /\ links = << >>
    /\ stage = "decomposition"
    /\ src_idx = 1
    /\ phase = "find"
    /\ candidates = << >>
    /\ lastCall = NoCall
    /\ NoAnalysis

SpecLinkTwo == InitLinkTwo /\ [][NextLink]_vars


-----------------------------------------------------------------------------
(* TraceGraph and the chain enumerators of the three analyzers             *)

\* analyzer.build_trace_graph (the _build_graph of hierarchical_analyzer and
\* of unified_analyzer build the same two maps): edges_down[s] are the targets
\* of the links with source s in link order, edges_up[t] the sources of the
\* links with target t; an id without entry reads as the empty list
SourcedAt(ls, id) == SelectBy(ls, [ i \in 1..Len(ls) |-> ls[i].source_id = id ])

TargetedAt(ls, id) == SelectBy(ls, [ i \in 1..Len(ls) |-> ls[i].target_id = id ])

build_trace_graph(artifacts, ls) ==
    [nodes |-> artifacts,
     edges_down |-> [ a \in Range(artifacts) |->
                        [ i \in 1..Len(SourcedAt(ls, a)) |-> SourcedAt(ls, a)[i].target_id ] ],
     edges_up |-> [ a \in Range(artifacts) |->
                        [ i \in 1..Len(TargetedAt(ls, a)) |-> TargetedAt(ls, a)[i].source_id ] ]]

\* the result of an enumeration: the chains, or RecursionError raised
Chains(cs) == [raised |-> FALSE, chains |-> cs]

RecursionError == [raised |-> TRUE, chains |-> << >>]

\* analyzer.trace_chain_forward: dfs(node_id, path) appends to chains; depth
\* is the number of dfs frames on the interpreter stack
RECURSIVE trace_chain_forward_dfs(_, _, _, _, _)
RECURSIVE trace_chain_forward_each(_, _, _, _, _)
trace_chain_forward_dfs(graph, node_id, path, acc, depth) ==
    IF depth > RecursionLimit THEN RecursionError
    ELSE IF graph.edges_down[node_id] = << >>
         THEN Chains(Append(acc, Append(path, node_id)))
         ELSE trace_chain_forward_each(graph, graph.edges_down[node_id],
                           Append(path, node_id), acc, depth + 1)

trace_chain_forward_each(graph, kids, current_path, acc, depth) ==
    IF kids = << >> THEN Chains(acc)
    ELSE LET r == trace_chain_forward_dfs(graph, Head(kids), current_path, acc, depth)
         IN  IF r.raised THEN RecursionError
             ELSE trace_chain_forward_each(graph, Tail(kids), current_path, r.chains, depth)

trace_chain_forward(graph, start_id) == trace_chain_forward_dfs(graph, start_id, << >>, << >>, 1)

\* hierarchical_analyzer._find_all_chains: dfs(node_id, path, visited) returns
\* at once on a visited node; its depth never exceeds the number of artifacts
RECURSIVE _find_all_chains_dfs(_, _, _, _, _)
RECURSIVE _find_all_chains_each(_, _, _, _, _)
_find_all_chains_dfs(graph, node_id, path, visited, acc) ==
    IF node_id \in visited THEN acc
    ELSE IF graph.edges_down[node_id] = << >>
         THEN Append(acc, Append(path, node_id))
         ELSE _find_all_chains_each(graph, graph.edges_down[node_id],
                           Append(path, node_id), visited \cup {node_id}, acc)

_find_all_chains_each(graph, kids, current_path, visited_copy, acc) ==
    IF kids = << >> THEN acc
    ELSE _find_all_chains_each(graph, Tail(kids), current_path, visited_copy,
                      _find_all_chains_dfs(graph, Head(kids), current_path, visited_copy, acc))

_find_all_chains(graph, start_id) == Chains(_find_all_chains_dfs(graph, start_id, << >>, {}, << >>))

\* an enumeration that stops at the node it was started at
StopAtStart(graph, start_id, visited) == << << start_id >> >>

\* unified_analyzer._trace_forward: the paths below start_id, none through a
\* node of visited
RECURSIVE _trace_forward_from(_, _, _)
RECURSIVE _trace_forward_each(_, _, _, _)
_trace_forward_from(graph, start_id, visited) ==
    IF start_id \in visited THEN << >>
    ELSE IF graph.edges_down[start_id] = << >>
         THEN << << start_id >> >>
         ELSE _trace_forward_each(graph, start_id, graph.edges_down[start_id],
                          visited \cup {start_id})

_trace_forward_each(graph, start_id, kids, visited) ==
    IF kids = << >> THEN << >>
    ELSE LET child_paths == _trace_forward_from(graph, Head(kids), visited)
         IN  [ i \in 1..Len(child_paths) |-> << start_id >> \o child_paths[i] ]
             \o _trace_forward_each(graph, start_id, Tail(kids), visited)

_trace_forward(graph, start_id) == Chains(_trace_forward_from(graph, start_id, {}))


-----------------------------------------------------------------------------
(* ChainClassifier, orphans, gaps and analyze_traceability (analyzer.py)   *)

EXPECTED_CHAIN_DEPTH(type) ==
    CASE type = "SYSTEM_REQ" -> 5
      [] type = "SYSTEM_REQ_DECOMPOSED" -> 4
      [] type = "HLR" -> 3
      [] type = "LLR" -> 2
      [] type = "CODE_VAR" -> 1
      [] OTHER -> 1

\* every entry of the table, and the .get default, is 'CODE_VAR'
EXPECTED_TERMINAL_TYPE(type) == "CODE_VAR"

\* a classifier that looks at the depth of the chain only
ClassifyByDepth(chain) ==
    IF chain = << >> THEN "INCOMPLETE"
    ELSE IF Len(chain) >= EXPECTED_CHAIN_DEPTH(TypeOf(chain[1])) THEN "COMPLETE"
    ELSE IF Len(chain) > 1 THEN "PARTIAL"
    ELSE "INCOMPLETE"

\* a classifier that has no verdict on the empty chain
ClassifyNonEmpty(chain) ==
    IF chain = << >> THEN "NONE"
    ELSE IF /\ TypeOf(chain[Len(chain)]) = "CODE_VAR"
            /\ Len(chain) >= EXPECTED_CHAIN_DEPTH(TypeOf(chain[1])) THEN "COMPLETE"
    ELSE IF Len(chain) > 1 /\ Len(chain) < EXPECTED_CHAIN_DEPTH(TypeOf(chain[1]))
         THEN "PARTIAL"
    ELSE IF Len(chain) = 1 THEN "INCOMPLETE"
    ELSE "BROKEN"

classify_chain(chain) ==
    IF chain = << >> THEN "INCOMPLETE"
    ELSE LET start_type == TypeOf(chain[1])
             terminal_type == TypeOf(chain[Len(chain)])
             expected_depth == EXPECTED_CHAIN_DEPTH(start_type)
             expected_terminal == EXPECTED_TERMINAL_TYPE(start_type)
             actual_depth == Len(chain)
         IN  IF terminal_type = expected_terminal /\ actual_depth >= expected_depth
             THEN "COMPLETE"
             ELSE IF actual_depth > 1 /\ actual_depth < expected_depth
             THEN "PARTIAL"
             ELSE IF actual_depth = 1
             THEN "INCOMPLETE"
             ELSE "BROKEN"

TYPES_REQUIRING_PARENT == { "HLR", "LLR", "CODE_VAR" }

TYPES_REQUIRING_CHILDREN == { "SYSTEM_REQ", "SYSTEM_REQ_DECOMPOSED", "HLR", "LLR" }

\* an orphan search that finds nothing
NoOrphans(graph, artifacts) ==
    [no_parent |-> << >>, no_children |-> << >>, isolated |-> << >>]

\* an orphan search that does not look at the type of the artifact
OrphansOfAnyType(graph, artifacts) ==
    [no_parent |->
        SelectBy(artifacts, [ i \in 1..Len(artifacts) |->
            graph.edges_up[artifacts[i]] = << >> ]),
     no_children |->
        SelectBy(artifacts, [ i \in 1..Len(artifacts) |->
            graph.edges_down[artifacts[i]] = << >> ]),
     isolated |->
        SelectBy(artifacts, [ i \in 1..Len(artifacts) |->
            /\ graph.edges_up[artifacts[i]] = << >>
            /\ graph.edges_down[artifacts[i]] = << >> ])]

\* find_orphans: the three lists, in artifact order (the ids stand for the
\* entries; the type of an entry is the type of its artifact)
find_orphans(graph, artifacts) ==
    [no_parent |->
        SelectBy(artifacts, [ i \in 1..Len(artifacts) |->
            /\ TypeOf(artifacts[i]) \in TYPES_REQUIRING_PARENT
            /\ graph.edges_up[artifacts[i]] = << >> ]),
     no_children |->
        SelectBy(artifacts, [ i \in 1..Len(artifacts) |->
            /\ TypeOf(artifacts[i]) \in TYPES_REQUIRING_CHILDREN
            /\ graph.edges_down[artifacts[i]] = << >> ]),
     isolated |->
        SelectBy(artifacts, [ i \in 1..Len(artifacts) |->
            /\ graph.edges_up[artifacts[i]] = << >>
            /\ graph.edges_down[artifacts[i]] = << >>
            /\ TypeOf(artifacts[i]) # "SYSTEM_REQ" ])]


\* [a for a in artifacts.values() if a['type'] == type]
WithType(artifacts, type) ==
    SelectBy(artifacts, [ i \in 1..Len(artifacts) |-> TypeOf(artifacts[i]) = type ])

\* a gap; a key the report's dict does not carry for the kind reads "" or << >>
Gap(type, severity, artifact_id, chain, classification) ==
    [type |-> type, severity |-> severity, artifact_id |-> artifact_id,
     chain |-> chain, classification |-> classification]

\* a severity that is the same for every type
CriticalForAll(type) == "critical"

NoChildrenSeverity(type) ==
    IF type \in {"SYSTEM_REQ", "SYSTEM_REQ_DECOMPOSED"} THEN "critical"
    ELSE IF type = "HLR" THEN "high"
    ELSE "medium"

\* the chains of trace_chain_forward from every id of starts, in order; the
\* first RecursionError ends the loop
RECURSIVE ChainsFromAll(_, _)
ChainsFromAll(graph, starts) ==
    IF starts = << >> THEN Chains(<< >>)
    ELSE LET first == trace_chain_forward(graph, Head(starts))
         IN  IF first.raised THEN RecursionError
             ELSE LET rest == ChainsFromAll(graph, Tail(starts))
                  IN  IF rest.raised THEN RecursionError
                      ELSE Chains(first.chains \o rest.chains)

ClassOf(cs) == [ i \in 1..Len(cs) |-> classify_chain(cs[i]) ]

\* gap_counter: the gaps are numbered GAP-001, GAP-002, ... in list order
Numbered(gs) ==
    [ i \in 1..Len(gs) |->
        [gap_id |-> i, type |-> gs[i].type, severity |-> gs[i].severity,
         artifact_id |-> gs[i].artifact_id, chain |-> gs[i].chain,
         classification |-> gs[i].classification] ]

\* Gap Type 3: one gap per chain that is not COMPLETE
ChainGaps(cs) ==
    LET bad == SelectBy(cs, [ i \in 1..Len(cs) |-> classify_chain(cs[i]) # "COMPLETE" ])
    IN  [ i \in 1..Len(bad) |->
            Gap("incomplete_chain",
                IF classify_chain(bad[i]) = "INCOMPLETE" THEN "high" ELSE "medium",
                "", bad[i], classify_chain(bad[i])) ]

OrphanGaps(orphans) ==
    [ i \in 1..Len(orphans.no_parent) |->
        Gap("orphan_no_parent", "high", orphans.no_parent[i], << >>, "") ]
    \o [ i \in 1..Len(orphans.no_children) |->
        Gap("orphan_no_children", NoChildrenSeverity(TypeOf(orphans.no_children[i])),
            orphans.no_children[i], << >>, "") ]

\* identify_gaps: the gaps, or RecursionError out of trace_chain_forward
identify_gaps(graph, artifacts, orphans) ==
    LET walked == ChainsFromAll(graph, WithType(artifacts, "SYSTEM_REQ"))
    IN  IF walked.raised THEN [raised |-> TRUE, gaps |-> << >>]
        ELSE [raised |-> FALSE,
              gaps |-> Numbered(OrphanGaps(orphans) \o ChainGaps(walked.chains))]


\* how many artifacts of a type have an entry in an edge map
Linked(edges, artifacts, type) ==
    Cardinality({ i \in 1..Len(artifacts) :
              TypeOf(artifacts[i]) = type /\ edges[artifacts[i]] # << >> })

\* compute_coverage_metrics: the counts of every level (the percentages of
\* the report are quotients of these counts)
compute_coverage_metrics(graph, artifacts) ==
    [system_req_coverage |->
        [total |-> Len(WithType(artifacts, "SYSTEM_REQ")),
         with_decomposition |-> Linked(graph.edges_down, artifacts, "SYSTEM_REQ")],
     decomposed_to_hlr |->
        [total |-> Len(WithType(artifacts, "SYSTEM_REQ_DECOMPOSED")),
         with_hlr_link |-> Linked(graph.edges_down, artifacts, "SYSTEM_REQ_DECOMPOSED")],
     hlr_coverage |->
        [total |-> Len(WithType(artifacts, "HLR")),
         with_parent |-> Linked(graph.edges_up, artifacts, "HLR"),
         with_children |-> Linked(graph.edges_down, artifacts, "HLR")],
     llr_coverage |->
        [total |-> Len(WithType(artifacts, "LLR")),
         with_parent |-> Linked(graph.edges_up, artifacts, "LLR"),
         with_children |-> Linked(graph.edges_down, artifacts, "LLR")],
     variable_coverage |->
        [total |-> Len(WithType(artifacts, "CODE_VAR")),
         traced |-> Linked(graph.edges_up, artifacts, "CODE_VAR")]]

HowMany(classes, wanted) ==
    Cardinality({ i \in 1..Len(classes) : classes[i] \in wanted })

WithSeverity(gaps, severity) ==
    Cardinality({ i \in 1..Len(gaps) : gaps[i].severity = severity })

\* the report of analyze_traceability once the gaps and the chains are there
Report(graph, artifacts, ls, gaps, classes) ==
    [raised |-> FALSE,
     link_counts |-> Len(ls),
     coverage_metrics |-> compute_coverage_metrics(graph, artifacts),
     end_to_end |->
        [total_chains |-> Len(classes),
         complete |-> HowMany(classes, {"COMPLETE"}),
         partial |-> HowMany(classes, {"PARTIAL"}),
         incomplete |-> HowMany(classes, {"INCOMPLETE", "BROKEN"})],
     orphans |-> find_orphans(graph, artifacts),
     gaps |-> gaps,
     gap_summary |->
        [total |-> Len(gaps),
         critical |-> WithSeverity(gaps, "critical"),
         high |-> WithSeverity(gaps, "high"),
         medium |-> WithSeverity(gaps, "medium"),
         low |-> WithSeverity(gaps, "low")]]

AnalysisRaised == [raised |-> TRUE]

\* analyze_traceability: the graph, the metrics, the orphans, the gaps, then
\* the chains of every SYSTEM_REQ once more for the end-to-end counts
AnalyzeGraph(graph, artifacts, ls) ==
    IF identify_gaps(graph, artifacts, find_orphans(graph, artifacts)).raised
    THEN AnalysisRaised
    ELSE Report(graph, artifacts, ls,
                identify_gaps(graph, artifacts, find_orphans(graph, artifacts)).gaps,
                ClassOf(ChainsFromAll(graph, WithType(artifacts, "SYSTEM_REQ")).chains))

analyze_traceability(artifacts, ls) ==
    AnalyzeGraph(build_trace_graph(artifacts, ls), artifacts, ls)

-----------------------------------------------------------------------------
(* The analysis operations as steps: one operation is applied to the      *)
(* artifacts and links at hand, and its result kept                        *)

Enumerators == { "trace_chain_forward", "_find_all_chains", "_trace_forward" }

\* analyzer.trace_chain_forward from one start node over the current links
TraceChainForward ==
    /\ stage = "done"
    /\ op = "none"
    /\ \E start_id \in ArtifactIds :
         /\ input' = start_id
         /\ output' = trace_chain_forward(build_trace_graph(ArtifactOrder, links), start_id)
    /\ op' = "trace_chain_forward"
    /\ UNCHANGED linkVars

\* hierarchical_analyzer._find_all_chains from one start node
FindAllChains ==
    /\ stage = "done"
    /\ op = "none"
    /\ \E start_id \in ArtifactIds :
         /\ input' = start_id
         /\ output' = _find_all_chains(build_trace_graph(ArtifactOrder, links), start_id)
    /\ op' = "_find_all_chains"
    /\ UNCHANGED linkVars

\* unified_analyzer._trace_forward from one start node
TraceForward ==
    /\ stage = "done"
    /\ op = "none"
    /\ \E start_id \in ArtifactIds :
         /\ input' = start_id
         /\ output' = _trace_forward(build_trace_graph(ArtifactOrder, links), start_id)
    /\ op' = "_trace_forward"
    /\ UNCHANGED linkVars

\* analyzer.analyze_traceability over the artifacts and the current links
AnalyzeTraceability ==
    /\ stage = "done"
    /\ op = "none"
    /\ input' = << >>
    /\ output' = analyze_traceability(ArtifactOrder, links)
    /\ op' = "analyze_traceability"
    /\ UNCHANGED linkVars

\* the graph before the loop over the links
EmptyGraph(artifacts) ==
    [nodes |-> artifacts,
     edges_down |-> [ a \in Range(artifacts) |-> << >> ],
     edges_up |-> [ a \in Range(artifacts) |-> << >> ]]

\* a loop body that puts the new entry in front
AddEdgeInFront(graph, link) ==
    [graph EXCEPT !.edges_down[link.source_id] = << link.target_id >> \o @,
                  !.edges_up[link.target_id] = << link.source_id >> \o @]

\* the loop body of build_trace_graph and of both _build_graph
AddEdge(graph, link) ==
    [graph EXCEPT !.edges_down[link.source_id] = Append(@, link.target_id),
                  !.edges_up[link.target_id] = Append(@, link.source_id)]

\* "for link in links"
RECURSIVE AddEdges(_, _)
AddEdges(graph, ls) ==
    IF ls = << >> THEN graph ELSE AddEdges(AddEdge(graph, Head(ls)), Tail(ls))

\* the graph is built from the current links, link by link
BuildTraceGraph ==
    /\ stage = "done"
    /\ op = "none"
    /\ input' = << >>
    /\ output' = AddEdges(EmptyGraph(ArtifactOrder), links)
    /\ op' = "build_trace_graph"
    /\ UNCHANGED linkVars

\* analyzer.find_orphans over the graph of the current links
FindOrphans ==
    /\ stage = "done"
    /\ op = "none"
    /\ input' = << >>
    /\ output' = find_orphans(build_trace_graph(ArtifactOrder, links), ArtifactOrder)
    /\ op' = "find_orphans"
    /\ UNCHANGED linkVars

\* analyzer.identify_gaps over the graph of the current links and its orphans
IdentifyGaps ==
    /\ stage = "done"
    /\ op = "none"
    /\ input' = << >>
    /\ output' = identify_gaps(build_trace_graph(ArtifactOrder, links), ArtifactOrder,
                     find_orphans(build_trace_graph(ArtifactOrder, links), ArtifactOrder))
    /\ op' = "identify_gaps"
    /\ UNCHANGED linkVars

\* analyzer.classify_chain on the chain given
ClassifyChain ==
    /\ op = "none"
    /\ output' = classify_chain(input)
    /\ op' = "classify_chain"
    /\ UNCHANGED input
    /\ UNCHANGED linkVars

\* hierarchical_analyzer._analyze_chains, the list a chain is put on
ChainsAnalysisList(chain) ==
    IF TypeOf(chain[Len(chain)]) = "CODE_VAR" /\ Len(chain) >= 4 THEN "complete_chains"
    ELSE IF Len(chain) >= 2 THEN "partial_chains"
    ELSE "broken_chains"

\* _analyze_chains on one chain of a SYSTEM_REQ as _find_all_chains returns
\* them: it starts at the requirement and repeats no node
AnalyzeChain ==
    /\ op = "none"
    /\ input # << >>
    /\ TypeOf(input[1]) = "SYSTEM_REQ"
    /\ Cardinality(Range(input)) = Len(input)
    /\ output' = ChainsAnalysisList(input)
    /\ op' = "_analyze_chains"
    /\ UNCHANGED input
    /\ UNCHANGED linkVars

\* a link as the analyzers read it from the link file
Edge(source_id, target_id) ==
    create_link(source_id, target_id,
                IF TypeOf(source_id) = "SYSTEM_REQ" THEN "decomposes" ELSE "implements",
                One, "", "")

\* the links of the end-to-end scenario: SYS-001 in two parts, one part
\* traced down to a variable
ScenarioLinks ==
    << Edge("SYS-001", "SYS-001-A"), Edge("SYS-001", "SYS-001-B"),
       Edge("SYS-001-A", "HLR-001-A"), Edge("HLR-001-A", "LLR-001-A-1"),
       Edge("LLR-001-A-1", "VAR-007") >>

\* the links a link file may hold beside them: a second parent, a link
\* recorded twice, links that point back up, and a link from a low-level to
\* another high-level requirement
LinkPool ==
    ScenarioLinks \o
    << Edge("SYS-001-B", "HLR-001-A"), Edge("SYS-001-A", "HLR-001-A"),
       Edge("LLR-001-A-1", "HLR-001-A"), Edge("VAR-007", "SYS-001"),
       Edge("HLR-003", "HLR-003"), Edge("LLR-001-A-1", "HLR-003") >>

\* every selection of links of the pool, in pool order
LinkFiles ==
    { SelectBy(LinkPool, keep) : keep \in [1..Len(LinkPool) -> BOOLEAN] }

\* the linking stage is over; the link list is what the link file holds
LinkingDone ==
    /\ children \in { c \in ChildrenChoices : Len(c["SYS-001"]) = 2 }
    /\ embedded = {}
    /\ impl = "hierarchical"
    /\ groq_client = FALSE
    /\ stage = "done"
    /\ src_idx = 1
    /\ phase = "find"
    /\ candidates = << >>
    /\ lastCall = NoCall

InitTrace ==
    /\ LinkingDone
    /\ links \in LinkFiles
    /\ NoAnalysis

NextTrace ==
    \/ TraceChainForward
    \/ FindAllChains
    \/ TraceForward
    \/ AnalyzeTraceability
    \/ FindOrphans
    \/ IdentifyGaps
    \/ BuildTraceGraph

SpecTrace == InitTrace /\ [][NextTrace]_vars

\* one artifact of every type
ChainIds == { "SYS-001", "SYS-001-A", "HLR-001-A", "LLR-001-A-1", "VAR-007" }

InitClassify ==
    /\ LinkingDone
    /\ links = << >>
    /\ input \in SeqsUpTo(ChainIds, MaxChainLen)
    /\ op = "none"
    /\ output = << >>

NextClassify ==
    \/ ClassifyChain
    \/ AnalyzeChain

SpecClassify == InitClassify /\ [][NextClassify]_vars


-----------------------------------------------------------------------------
(* The scorer and the two quality gates applied to one signal tuple        *)

\* the values of a signal around the thresholds of the gates; search_similar
\* returns no similarity below embedding_threshold
EmbLevels == { EmbeddingThreshold, 12, 13, 20, 21, 30, 31, 100 }

KwLevels == { 0, 5, 6, 12, 13, 20, 21, 100 }

NameLevels == { 0, 10, 11, 100 }

\* what compute_id_relationship_boost can return
BoostLevels == { 0, 20, 30 }

SignalTuples ==
    [emb : EmbLevels, kw : KwLevels, qty : BOOLEAN, name : NameLevels,
     id_boost : BoostLevels]

\* HierarchicalLinker._find_candidates: the combined score under the default
\* weights, then _passes_quality_filters
HierGate ==
    /\ op = "none"
    /\ input \in SignalTuples
    /\ output' = HierPassesQualityFilters(
                     compute_combined_score(input.emb, input.kw, input.qty, input.name,
                                            input.id_boost, DefaultWeights),
                     input.emb, input.kw, input.qty, input.name, input.id_boost)
    /\ op' = "HierarchicalLinker._passes_quality_filters"
    /\ UNCHANGED input
    /\ UNCHANGED linkVars

\* LinkManager._passes_quality_filters on the match details of a candidate
LegacyGate ==
    /\ op = "none"
    /\ input \in SignalTuples
    /\ output' = LegacyPassesQualityFilters(input.emb, input.kw, input.qty, input.name,
                                            input.id_boost)
    /\ op' = "LinkManager._passes_quality_filters"
    /\ UNCHANGED input
    /\ UNCHANGED linkVars

\* HierarchicalLinker._find_candidates: compute_combined_score is called
\* without the weights argument
HierCombinedScore ==
    /\ op = "none"
    /\ input \in SignalTuples
    /\ output' = compute_combined_score(input.emb, input.kw, input.qty, input.name,
                                        input.id_boost, DefaultWeights)
    /\ op' = "HierarchicalLinker.combined_score"
    /\ UNCHANGED input
    /\ UNCHANGED linkVars

\* LinkManager.find_candidates: compute_combined_score is called with
\* self.config.linking.weights
LegacyCombinedScore ==
    /\ op = "none"
    /\ input \in SignalTuples
    /\ output' = compute_combined_score(input.emb, input.kw, input.qty, input.name,
                                        input.id_boost, ConfigWeights)
    /\ op' = "LinkManager.combined_score"
    /\ UNCHANGED input
    /\ UNCHANGED linkVars

InitSignals ==
    /\ LinkingDone
    /\ links = << >>
    /\ input \in SignalTuples
    /\ op = "none"
    /\ output = << >>

NextSignals ==
    \/ HierGate
    \/ LegacyGate
    \/ HierCombinedScore
    \/ LegacyCombinedScore

SpecSignals == InitSignals /\ [][NextSignals]_vars


-----------------------------------------------------------------------------
(* The two id functions applied to a pair of ids (linker.py).  input holds *)
(* the pair, output the returned dictionary or boost (in hundredths).      *)

\* ids the pattern does not match: lower case, an underscore in the prefix,
\* a fifth part, no hyphen at all
MalformedIds == { "sys-001", "SYS_REQ-001", "SYS-001-A-1-2", "REQ12" }

IdPairs == [source_id : ArtifactIds \cup { UnknownId } \cup MalformedIds,
            target_id : ArtifactIds \cup { UnknownId } \cup MalformedIds]

ExtractIdHierarchy ==
    /\ op = "none"
    /\ input \in IdPairs
    /\ op' = "extract_id_hierarchy"
    /\ output' = extract_id_hierarchy(input.source_id)
    /\ UNCHANGED input
    /\ UNCHANGED linkVars

ComputeIdRelationshipBoost ==
    /\ op = "none"
    /\ input \in IdPairs
    /\ op' = "compute_id_relationship_boost"
    /\ output' = compute_id_relationship_boost(input.source_id, input.target_id)
    /\ UNCHANGED input
    /\ UNCHANGED linkVars

InitIds ==
    /\ LinkingDone
    /\ links = << >>
    /\ input \in IdPairs
    /\ op = "none"
    /\ output = << >>

NextIds ==
    \/ ExtractIdHierarchy
    \/ ComputeIdRelationshipBoost

SpecIds == InitIds /\ [][NextIds]_vars

-----------------------------------------------------------------------------
(* The decomposition stage (decomposer.py), one step per pass of the loop  *)
(* "for sys_req in sys_reqs".  children holds the children lists, src_idx  *)
(* the loop position, input the 'decomposed' flags, which requirements     *)
(* detect_complex_requirement finds complex and the number of the run,     *)
(* output the ids of the artifacts added to updated_artifacts.             *)

\* how often the stage is run over the same artifacts
MaxPasses == 2

\* f"{requirement['id']}-{suffix}"
ChildId(id, suffix) ==
    CASE id = "SYS-001" /\ suffix = "A" -> "SYS-001-A"
      [] id = "SYS-001" /\ suffix = "B" -> "SYS-001-B"
      [] id = "SYS-002" /\ suffix = "A" -> "SYS-002-A"
      [] id = "SYS-002" /\ suffix = "B" -> "SYS-002-B"
      [] id = "SYS-003" /\ suffix = "A" -> "SYS-003-A"
      [] id = "SYS-003" /\ suffix = "B" -> "SYS-003-B"

\* the 'suffix' fields of result['sub_requirements']
SubRequirementSuffixes == { << >>, << "A", "B" >> }

Decomposing ==
    /\ op = "decompose_all_system_requirements"
    /\ src_idx <= Len(OfType("SYSTEM_REQ"))

CurrentRequirement == OfType("SYSTEM_REQ")[src_idx]

\* "Check if already decomposed"
AlreadyDecomposed(id) == input.decomposed[id] \/ children[id] # << >>

\* the body of the loop after decompose_requirement has returned the
\* children with these suffixes; the next run starts after the last pass
DecomposeStep(suffixes) ==
    /\ children' = [children EXCEPT ![CurrentRequirement] =
                       [ k \in 1..Len(suffixes) |-> ChildId(CurrentRequirement, suffixes[k]) ]]
    /\ output' = output \cup
                   { ChildId(CurrentRequirement, suffixes[k]) : k \in 1..Len(suffixes) }
    /\ IF src_idx = Len(OfType("SYSTEM_REQ")) /\ input.pass < MaxPasses
       THEN /\ src_idx' = 1
            /\ input' = [input EXCEPT !.decomposed[CurrentRequirement] = TRUE,
                                      !.pass = @ + 1]
       ELSE /\ src_idx' = src_idx + 1
            /\ input' = [input EXCEPT !.decomposed[CurrentRequirement] = TRUE]
    /\ UNCHANGED << embedded, impl, groq_client, links, stage, phase, candidates,
                    lastCall, op >>

\* decompose_requirement returns [] for a requirement that is marked
\* decomposed or has children
DecomposeAgain ==
    /\ Decomposing
    /\ AlreadyDecomposed(CurrentRequirement)
    /\ DecomposeStep(<< >>)

\* "Already atomic - create single decomposed version"
DecomposeAtomic ==
    /\ Decomposing
    /\ ~AlreadyDecomposed(CurrentRequirement)
    /\ ~input.complex[CurrentRequirement]
    /\ DecomposeStep(<< "A" >>)

\* the children the LLM's answer names
DecomposeByLlm ==
    /\ Decomposing
    /\ ~AlreadyDecomposed(CurrentRequirement)
    /\ input.complex[CurrentRequirement]
    /\ \E suffixes \in SubRequirementSuffixes : DecomposeStep(suffixes)

\* "Fallback: create single atomic version" on any exception
DecomposeFallback ==
    /\ Decomposing
    /\ ~AlreadyDecomposed(CurrentRequirement)
    /\ input.complex[CurrentRequirement]
    /\ DecomposeStep(<< "A" >>)

\* the artifacts as the parser leaves them: no children, nothing decomposed
InitDecompose ==
    /\ children = [ s \in Range(OfType("SYSTEM_REQ")) |-> << >> ]
    /\ embedded = {}
    /\ impl = "hierarchical"
    /\ groq_client = TRUE
    /\ links = << >>
    /\ stage = "decomposition"
    /\ src_idx = 1
    /\ phase = "find"
    /\ candidates = << >>
    /\ lastCall = NoCall
    /\ input \in [decomposed : { [ s \in Range(OfType("SYSTEM_REQ")) |-> FALSE ] },
                  complex : [ Range(OfType("SYSTEM_REQ")) -> BOOLEAN ],
                  pass : { 1 }]
    /\ op = "decompose_all_system_requirements"
    /\ output = {}

NextDecompose ==
    \/ DecomposeAgain
    \/ DecomposeAtomic
    \/ DecomposeByLlm
    \/ DecomposeFallback

SpecDecompose == InitDecompose /\ [][NextDecompose]_vars

-----------------------------------------------------------------------------
(* The last step of candidate generation: the candidates that passed the   *)
(* gate and the threshold are sorted and cut.  input holds them in the     *)
(* order of the similarity search, output the returned list.               *)

\* the most candidates that pass the gate for one source
MaxCandidates == 22

\* n candidates whose scores rise, fall or stay equal along the list
ScoredTargets(n, pattern) ==
    [ i \in 1..n |->
        [target_id |-> i,
         score |-> CASE pattern = "rising" -> 2000 + 100 * i
                     [] pattern = "falling" -> 8000 - 100 * i
                     [] pattern = "equal" -> 5000] ]

\* HierarchicalLinker._find_candidates: candidates.sort(...);
\* return candidates[:top_k]
HierSortAndCut ==
    /\ op = "none"
    /\ output' = Take(SortDesc(input), HierTopK)
    /\ op' = "HierarchicalLinker._find_candidates"
    /\ UNCHANGED input
    /\ UNCHANGED linkVars

\* LinkManager.find_candidates: results.sort(...);
\* return results[:min(top_k, max_links)]
LegacySortAndCut ==
    /\ op = "none"
    /\ output' = Take(SortDesc(input), Min(LegacyTopK, MaxLinksPerSource))
    /\ op' = "LinkManager.find_candidates"
    /\ UNCHANGED input
    /\ UNCHANGED linkVars

\* a target number no candidate has
UnknownTarget == 0

\* the targets a response to a cut list may name: the best candidate, the
\* last one submitted, the first one not submitted, and an unknown one
CutRespTargets(cands) ==
    { cands[1].target_id,
      cands[Min(LlmTopN, Len(cands))].target_id,
      cands[Min(LlmTopN + 1, Len(cands))].target_id,
      UnknownTarget }

\* _link_layer: "if use_llm and self.groq_client and len(candidates) > 1:
\* selected = self._llm_select_targets(source, candidates, ...)" on the list
\* _find_candidates returned
LlmSelectFromCut ==
    /\ op = "HierarchicalLinker._find_candidates"
    /\ Len(output) > 1
    /\ \E outcome \in Outcomes :
         \E response \in (IF outcome = "parsed"
                          THEN SeqsUpTo([target_id : CutRespTargets(output),
                                         confidence : { 5000, 9000 }], MaxSelected)
                          ELSE { << >> }) :
            output' = [candidates |-> output,
                       outcome |-> outcome,
                       response |-> response,
                       selected |-> LlmSelectTargets(output, outcome, response)]
    /\ op' = "HierarchicalLinker._llm_select_targets"
    /\ UNCHANGED input
    /\ UNCHANGED linkVars

InitCut ==
    /\ LinkingDone
    /\ links = << >>
    /\ input \in { ScoredTargets(n, pattern) :
                     n \in 0..MaxCandidates, pattern \in { "rising", "falling", "equal" } }
    /\ op = "none"
    /\ output = << >>

NextCut ==
    \/ HierSortAndCut
    \/ LegacySortAndCut
    \/ LlmSelectFromCut

SpecCut == InitCut /\ [][NextCut]_vars

-----------------------------------------------------------------------------
(* RateLimiter.call_with_retry (api_utils.py), one step per pass of the    *)
(* loop "for attempt in range(self.max_retries)".  input holds max_retries *)
(* and base_delay; output holds the loop variable, what every invocation   *)
(* of func came to, the delays slept, and how the call ended.              *)

\* RateLimiter(max_retries=5, ...)
DefaultMaxRetries == 5

\* what one invocation of func comes to: a result, or an exception whose
\* message holds 'rate', 'limit' or '429' ("rate limit"), 'timeout',
\* 'connection', or none of these words ("other")
FuncOutcomes == { "ok", "rate limit", "timeout", "connection", "other" }

\* the two elif tests on error_str
IsRetried(error) == error \in { "rate limit", "timeout", "connection" }

\* a delay that grows by base_delay with every attempt
LinearDelay(base_delay, attempt) == base_delay * (attempt + 1)

\* delay = self.base_delay * (2 ** attempt)
BackoffDelay(base_delay, attempt) == base_delay * (2 ^ attempt)

RetryStart ==
    [attempt |-> 0, calls |-> << >>, sleeps |-> << >>, status |-> "running", error |-> ""]

Retrying == op = "call_with_retry" /\ output.status = "running"

\* return func(*args, **kwargs)
CallReturns ==
    /\ Retrying
    /\ output.attempt < input.max_retries
    /\ output' = [output EXCEPT !.calls = Append(@, "ok"), !.status = "returned"]
    /\ UNCHANGED << input, op >>
    /\ UNCHANGED linkVars

\* func raises a rate-limit, timeout or connection error: sleep and
\* continue, or raise when this was the last attempt
CallFailsRetried ==
    /\ Retrying
    /\ output.attempt < input.max_retries
    /\ \E e \in { x \in FuncOutcomes : IsRetried(x) } :
         IF output.attempt < input.max_retries - 1
         THEN output' = [output EXCEPT
                            !.calls = Append(@, e),
                            !.sleeps = Append(@, BackoffDelay(input.base_delay, output.attempt)),
                            !.attempt = @ + 1]
         ELSE output' = [output EXCEPT
                            !.calls = Append(@, e), !.status = "raised", !.error = e]
    /\ UNCHANGED << input, op >>
    /\ UNCHANGED linkVars

\* "Other errors - don't retry"
CallFailsOther ==
    /\ Retrying
    /\ output.attempt < input.max_retries
    /\ \E e \in { x \in FuncOutcomes : x # "ok" /\ ~IsRetried(x) } :
         output' = [output EXCEPT !.calls = Append(@, e), !.status = "raised", !.error = e]
    /\ UNCHANGED << input, op >>
    /\ UNCHANGED linkVars

\* the loop ends without a pass: raise Exception("Max retries exceeded")
RetriesExceeded ==
    /\ Retrying
    /\ output.attempt >= input.max_retries
    /\ output' = [output EXCEPT !.status = "raised", !.error = "Max retries exceeded"]
    /\ UNCHANGED << input, op >>
    /\ UNCHANGED linkVars

\* the limiters the call is made on
RetryConfigs == [max_retries : { 0, 1, 3, DefaultMaxRetries }, base_delay : { 1, 2 }]

InitRetry ==
    /\ LinkingDone
    /\ links = << >>
    /\ input \in RetryConfigs
    /\ op = "call_with_retry"
    /\ output = RetryStart

NextRetry ==
    \/ CallReturns
    \/ CallFailsRetried
    \/ CallFailsOther
    \/ RetriesExceeded

SpecRetry == InitRetry /\ [][NextRetry]_vars


-----------------------------------------------------------------------------
(* Properties of the linking stage (SpecLink)                              *)

\* the links of one source, in creation order
LinksOf(source_id) ==
    SelectBy(links, [ i \in 1..Len(links) |-> links[i].source_id = source_id ])

\* the parsed response names no target whose confidence reaches the floor
NoTargetPasses ==
    /\ lastCall.outcome = "parsed"
    /\ \A i \in 1..Len(lastCall.response) :
           lastCall.response[i].confidence < LlmConfFloor

\* the links of source_id are the first three submitted candidates (fewer if
\* fewer were submitted), each at its combined score
IsTopThree(source_id, submitted) ==
    LET made == LinksOf(source_id)
    IN  /\ Len(made) = Min(3, Len(submitted))
        /\ \A i \in 1..Len(made) :
              /\ made[i].target_id = submitted[i].target_id
              /\ made[i].confidence = submitted[i].score

\* the layer loop stands at the source after source_id
MovedPast(source_id) ==
    \E k \in 1..Len(Layers) :
        LET srcs == Sources(Layers[k])
        IN  \E j \in 1..Len(srcs) :
              /\ srcs[j] = source_id
              /\ IF j < Len(srcs)
                 THEN stage = Layers[k] /\ src_idx = j + 1
                 ELSE stage = NextStage(Layers[k]) /\ src_idx = 1

\* C1 as stated: when the parsed response of the adjudicator holds no target
\* that passes the 0.6 floor (an empty list included), the linker accepts the
\* top-3 candidates of the source, so the source gets at least one link.
C1_FallbackWhenNonePasses ==
    NoTargetPasses =>
        /\ IsTopThree(lastCall.source, lastCall.submitted)
        /\ Len(LinksOf(lastCall.source)) >= 1

\* C1 amended: when the parsed response of the adjudicator holds no target
\* that passes the 0.6 floor (an empty list included), no link is created for
\* the source and the linker moves to the next source; the top-3 candidates
\* are not accepted.
C1_NoLinkWhenNonePasses ==
    NoTargetPasses =>
        /\ LinksOf(lastCall.source) = << >>
        /\ MovedPast(lastCall.source)

\* a response with a target below the floor was handled, over 4 candidates
C1_Witness ==
    /\ NoTargetPasses
    /\ Len(lastCall.response) >= 1
    /\ Len(lastCall.submitted) >= 4
    /\ links # << >>

\* C2: when the adjudicator call raises or its response cannot be parsed as
\* JSON, the source gets exactly min(3, n) links, to the n submitted
\* candidates in score order, each with its combined score as confidence, and
\* the linker goes on with the next source.
C2_TopThreeOnFailure ==
    lastCall.outcome \in {"raise", "badjson", "malformed"} =>
        /\ IsTopThree(lastCall.source, lastCall.submitted)
        /\ MovedPast(lastCall.source)

\* an unparsable response over four candidates left three links behind
C2_Witness ==
    /\ lastCall.outcome = "badjson"
    /\ Len(lastCall.submitted) = 4
    /\ Len(LinksOf(lastCall.source)) = 3
    /\ LinksOf(lastCall.source)[1].confidence > LinksOf(lastCall.source)[3].confidence

\* C3 as stated: every link's confidence lies in [0, 1], the confidences the
\* adjudicator supplies included.
C3_ConfidenceInUnitInterval ==
    \A i \in 1..Len(links) : links[i].confidence \in 0..One

\* C4 as stated: a link of the scored layers of HierarchicalLinker is tagged
\* 'multi-signal + llm' only if the adjudicator accepted it; a link accepted
\* directly or through the top-3 fallback is tagged 'multi-signal'.
C4_MethodTagTellsAdjudication ==
    lastCall.outcome # "none" =>
        \A i \in 1..Len(LinksOf(lastCall.source)) :
            LinksOf(lastCall.source)[i].method =
                IF lastCall.outcome = "parsed"
                THEN "multi-signal + llm" ELSE "multi-signal"

\* C5 as stated: with either linker every LLR -> CODE_VAR link has type
\* 'references' and every link of the two layers above has 'implements'.
C5_LinkTypePerLayer ==
    \A i \in 1..Len(links) :
        /\ (TypeOf(links[i].source_id) = "LLR" /\ TypeOf(links[i].target_id) = "CODE_VAR")
              => links[i].link_type = "references"
        /\ TypeOf(links[i].source_id) \in {"SYSTEM_REQ_DECOMPOSED", "HLR"}
              => links[i].link_type = "implements"

\* C6 as stated: after the decomposition stage every SYSTEM_REQ with children
\* has exactly one 'decomposes' link of confidence 1.0 per child id, and every
\* link whose source is a SYSTEM_REQ is a 'decomposes' link of confidence 1.0.
C6_OneDecomposesLinkPerChild ==
    stage # "decomposition" =>
        /\ \A s \in Range(OfType("SYSTEM_REQ")) :
              \A c \in Range(children[s]) :
                Cardinality({ i \in 1..Len(links) :
                    /\ links[i].source_id = s
                    /\ links[i].target_id = c
                    /\ links[i].link_type = "decomposes"
                    /\ links[i].confidence = One }) = 1
        /\ \A i \in 1..Len(links) :
              TypeOf(links[i].source_id) = "SYSTEM_REQ" =>
                  /\ links[i].link_type = "decomposes"
                  /\ links[i].confidence = One


-----------------------------------------------------------------------------
(* Properties of the analysis (SpecTrace, SpecClassify)                    *)

NoRepeat(chain) ==
    \A i, j \in 1..Len(chain) : chain[i] = chain[j] => i = j

\* C7 as stated: each of the three chain enumerators returns from every start
\* node over every link set, cyclic ones included, and no chain it returns
\* visits a node twice.
C7_EnumerationTerminates ==
    op \in Enumerators =>
        /\ ~output.raised
        /\ \A i \in 1..Len(output.chains) : NoRepeat(output.chains[i])

\* the expected depth of a chain by the type of its root, as the claim lists it
DepthTable ==
    [SYSTEM_REQ |-> 5, SYSTEM_REQ_DECOMPOSED |-> 4, HLR |-> 3, LLR |-> 2, CODE_VAR |-> 1]

\* C8: a non-empty chain is COMPLETE if it ends at a CODE_VAR and is at least
\* as long as the expected depth of its root's type; otherwise PARTIAL if its
\* length is more than 1 and less than that depth; otherwise INCOMPLETE if its
\* length is 1; otherwise BROKEN. A chain of 5 from a SYSTEM_REQ to a CODE_VAR
\* is COMPLETE, a chain of 2 from a SYSTEM_REQ to a decomposed part PARTIAL.
C8_ClassificationTable ==
    (op = "classify_chain" /\ input # << >>) =>
        /\ (TypeOf(input[Len(input)]) = "CODE_VAR"
              /\ Len(input) >= DepthTable[TypeOf(input[1])])
                => output = "COMPLETE"
        /\ (~(TypeOf(input[Len(input)]) = "CODE_VAR"
                /\ Len(input) >= DepthTable[TypeOf(input[1])])
              /\ 1 < Len(input) /\ Len(input) < DepthTable[TypeOf(input[1])])
                => output = "PARTIAL"
        /\ (TypeOf(input[1]) # "CODE_VAR" /\ Len(input) = 1)
                => output = "INCOMPLETE"
        /\ (TypeOf(input[Len(input)]) # "CODE_VAR"
              /\ Len(input) >= DepthTable[TypeOf(input[1])] /\ Len(input) > 1)
                => output = "BROKEN"
        /\ output \in {"COMPLETE", "PARTIAL", "INCOMPLETE", "BROKEN"}
        /\ (Len(input) = 5 /\ TypeOf(input[1]) = "SYSTEM_REQ"
              /\ TypeOf(input[5]) = "CODE_VAR") => output = "COMPLETE"
        /\ input = << "SYS-001", "SYS-001-A" >> => output = "PARTIAL"

\* a chain of the expected depth that ends at the wrong type was classified
C8_Witness ==
    /\ op = "classify_chain"
    /\ input = << "SYS-001", "SYS-001-A", "HLR-001-A", "LLR-001-A-1", "LLR-001-A-1" >>
    /\ output = "BROKEN"

\* C9 as stated: classify_chain gives the empty chain none of the four
\* classifications.
C9_NoVerdictOnEmptyChain ==
    (op = "classify_chain" /\ input = << >>) =>
        output \notin {"COMPLETE", "PARTIAL", "INCOMPLETE", "BROKEN"}

\* C9 amended: classify_chain classifies the empty chain as INCOMPLETE.
C9_EmptyChainIsIncomplete ==
    (op = "classify_chain" /\ input = << >>) => output = "INCOMPLETE"

\* the empty chain went through classify_chain
C9_Witness ==
    /\ op = "classify_chain"
    /\ input = << >>
    /\ output \in {"COMPLETE", "PARTIAL", "INCOMPLETE", "BROKEN"}

\* the gaps of kind orphan_no_children recorded for an artifact
NoChildrenGaps(gaps, artifact_id) ==
    { i \in 1..Len(gaps) :
        gaps[i].type = "orphan_no_children" /\ gaps[i].artifact_id = artifact_id }

\* C10: over the scenario links (SYS-001 in two parts, one part linked to an
\* HLR, the HLR to an LLR, the LLR to a CODE_VAR, nothing else), the report
\* of analyze_traceability counts exactly 1 COMPLETE chain, and every
\* SYSTEM_REQ without children has exactly one orphan_no_children gap, of
\* severity critical.
C10_ScenarioReport ==
    (op = "analyze_traceability" /\ links = ScenarioLinks) =>
        /\ ~output.raised
        /\ output.end_to_end.complete = 1
        /\ \A s \in { "SYS-002", "SYS-003" } :
              /\ Cardinality(NoChildrenGaps(output.gaps, s)) = 1
              /\ \A i \in NoChildrenGaps(output.gaps, s) :
                    output.gaps[i].severity = "critical"

\* the scenario was analysed: four chains, one of them down to the variable
C10_Witness ==
    /\ op = "analyze_traceability"
    /\ links = ScenarioLinks
    /\ ~output.raised
    /\ output.end_to_end.total_chains = 4
    /\ output.gap_summary.critical >= 2

HasIncoming(id) == \E i \in 1..Len(links) : links[i].target_id = id

HasOutgoing(id) == \E i \in 1..Len(links) : links[i].source_id = id

\* C11: find_orphans lists an artifact under no_parent exactly when it is an
\* HLR, LLR or CODE_VAR without incoming link, under no_children exactly when
\* it is a SYSTEM_REQ, SYSTEM_REQ_DECOMPOSED, HLR or LLR without outgoing
\* link, and under isolated exactly when it has no link at all and is not a
\* SYSTEM_REQ.
C11_OrphanLists ==
    op = "find_orphans" =>
        \A a \in ArtifactIds :
            /\ a \in Range(output.no_parent) <=>
                  (TypeOf(a) \in {"HLR", "LLR", "CODE_VAR"} /\ ~HasIncoming(a))
            /\ a \in Range(output.no_children) <=>
                  (TypeOf(a) \in {"SYSTEM_REQ", "SYSTEM_REQ_DECOMPOSED", "HLR", "LLR"}
                   /\ ~HasOutgoing(a))
            /\ a \in Range(output.isolated) <=>
                  (~HasIncoming(a) /\ ~HasOutgoing(a) /\ TypeOf(a) # "SYSTEM_REQ")

\* orphans were searched where a requirement has no parent although linked
\* below, a variable is traced, and a decomposed part has no link at all
C11_Witness ==
    /\ op = "find_orphans"
    /\ HasOutgoing("HLR-001-A") /\ ~HasIncoming("HLR-001-A")
    /\ HasIncoming("VAR-007")
    /\ "HLR-001-A" \in Range(output.no_parent)
    /\ "SYS-001-B" \in Range(output.isolated)
    /\ "SYS-001" \in Range(output.no_children)

\* C12: every gap of identify_gaps has the severity of its kind:
\* orphan_no_parent high; orphan_no_children critical for a SYSTEM_REQ or a
\* decomposed part, high for an HLR, medium otherwise; incomplete_chain high
\* for an INCOMPLETE chain and medium for a PARTIAL or BROKEN one; no gap is
\* low and no COMPLETE chain has a gap.
C12_SeverityByKind ==
    (op = "identify_gaps" /\ ~output.raised) =>
        \A i \in 1..Len(output.gaps) :
            LET g == output.gaps[i]
            IN  /\ g.type \in {"orphan_no_parent", "orphan_no_children", "incomplete_chain"}
                /\ g.type = "orphan_no_parent" => g.severity = "high"
                /\ g.type = "orphan_no_children" =>
                      g.severity =
                        CASE TypeOf(g.artifact_id) \in {"SYSTEM_REQ", "SYSTEM_REQ_DECOMPOSED"}
                               -> "critical"
                          [] TypeOf(g.artifact_id) = "HLR" -> "high"
                          [] OTHER -> "medium"
                /\ g.type = "incomplete_chain" =>
                      /\ g.classification = classify_chain(g.chain)
                      /\ g.classification = "INCOMPLETE" => g.severity = "high"
                      /\ g.classification \in {"PARTIAL", "BROKEN"} => g.severity = "medium"
                      /\ g.classification # "COMPLETE"
                /\ g.severity # "low"

\* orphan gaps of two severities and the gap of a BROKEN chain in one run
C12_Witness ==
    /\ op = "identify_gaps"
    /\ ~output.raised
    /\ \E i, j, k \in 1..Len(output.gaps) :
          /\ output.gaps[i].type = "orphan_no_children" /\ output.gaps[i].severity = "critical"
          /\ output.gaps[j].type = "orphan_no_children" /\ output.gaps[j].severity = "high"
          /\ output.gaps[k].type = "incomplete_chain"
          /\ output.gaps[k].classification = "BROKEN"
          /\ output.gaps[k].severity = "medium"


-----------------------------------------------------------------------------
(* Properties of the scorer and the gates (SpecSignals)                    *)

GateApplied ==
    op \in { "HierarchicalLinker._passes_quality_filters",
             "LinkManager._passes_quality_filters" }

\* C13 as stated: a candidate either gate accepts has a strong signal
\* (keyword > 0.20, or embedding > 0.30, or embedding > 0.20 with keyword >
\* 0.12) or at least two of the five moderate signals (embedding > 0.12,
\* keyword > 0.05, quantity match, name > 0.10, id boost > 0.05).
C13_GateIsConservative ==
    (GateApplied /\ output = TRUE) =>
        \/ input.kw > 20
        \/ input.emb > 30
        \/ (input.emb > 20 /\ input.kw > 12)
        \/ Cardinality({ k \in 1..5 :
                << input.emb > 12, input.kw > 5, input.qty,
                   input.name > 10, input.id_boost > 5 >>[k] }) >= 2


-----------------------------------------------------------------------------
(* Properties of call_with_retry (SpecRetry)                               *)

Transient == { "rate limit", "timeout", "connection" }

\* C14: call_with_retry invokes func at most max_retries times; every
\* invocation but the last ended in a rate-limit, timeout or connection
\* error and was followed by a sleep of base_delay * 2^attempt; the first
\* result is returned; any other error is raised where it occurs; a transient
\* error is raised only on the last permitted attempt, and is raised there.
C14_RetryDiscipline ==
    op = "call_with_retry" =>
        LET n == Len(output.calls)
        IN  /\ n <= input.max_retries
            /\ \A k \in 1..(n - 1) : output.calls[k] \in Transient
            /\ \A k \in 1..Len(output.sleeps) :
                  /\ output.calls[k] \in Transient
                  /\ output.sleeps[k] = input.base_delay * (2 ^ (k - 1))
            /\ Len(output.sleeps) = IF output.status = "running" \/ n = 0 THEN n ELSE n - 1
            /\ output.status = "returned" <=> (n >= 1 /\ output.calls[n] = "ok")
            /\ (n >= 1 /\ output.calls[n] = "other") =>
                  (output.status = "raised" /\ output.error = "other")
            /\ (n >= 1 /\ output.calls[n] \in Transient /\ n = input.max_retries) =>
                  (output.status = "raised" /\ output.error = output.calls[n])
            /\ (output.status = "raised" /\ output.error \in Transient) =>
                  n = input.max_retries

\* the fifth of five attempts failed like the four before it
C14_Witness ==
    /\ op = "call_with_retry"
    /\ input.max_retries = 5
    /\ Len(output.calls) = 5
    /\ output.sleeps = << 2, 4, 8, 16 >>
    /\ output.status = "raised"
    /\ output.error = "timeout"

-----------------------------------------------------------------------------
(* The adjudication call under transient errors (SpecLink)                 *)

\* C15: when the adjudication request of a source fails with a rate-limit,
\* timeout or connection error, the request is sent again before the linker
\* falls back to the heuristic candidates of that source.
C15_TransientErrorIsRetried ==
    (lastCall.outcome = "raise" /\ lastCall.error \in Transient) =>
        lastCall.requests > 1

-----------------------------------------------------------------------------
(* Properties of the id functions (SpecIds)                                *)

\* the parent an id resolves to when its type prefix is put one layer up
PrefixUp(id) ==
    LET t == Tokens(id)
    IN  IF IdMatch(id).ok /\ t[1] = "HLR" THEN << "SYS" >> \o Tail(t)
        ELSE IF IdMatch(id).ok /\ t[1] = "LLR" THEN << "HLR" >> \o Tail(t)
        ELSE NoRef

\* C16: the boost is 0.3 exactly when one id, with its prefix put one layer
\* up, is the other id (so 0.3 for SYS-001-A and HLR-001-A); otherwise 0.2
\* when both ids have the same numeric base; otherwise 0.
C16_BoostByResolvedParent ==
    op = "compute_id_relationship_boost" =>
        output =
            IF \/ PrefixUp(input.source_id) = Tokens(input.target_id)
               \/ PrefixUp(input.target_id) = Tokens(input.source_id)
            THEN 30
            ELSE IF /\ IdMatch(input.source_id).ok
                    /\ IdMatch(input.target_id).ok
                    /\ IdMatch(input.source_id).num = IdMatch(input.target_id).num
                 THEN 20
                 ELSE 0

\* C17: for an id the pattern does not match, extract_id_hierarchy returns
\* the id as base with no suffix and no parent reference, and the boost
\* between that id and any other id is 0.
C17_MalformedIdHasNoBoost ==
    /\ (op = "extract_id_hierarchy" /\ ~IdMatch(input.source_id).ok) =>
          output = [base |-> Tokens(input.source_id), suffix |-> "", parent_ref |-> NoRef]
    /\ ( /\ op = "compute_id_relationship_boost"
         /\ input.source_id # input.target_id
         /\ ~IdMatch(input.source_id).ok \/ ~IdMatch(input.target_id).ok ) =>
          output = 0

-----------------------------------------------------------------------------
(* Properties of the combined score (SpecSignals)                          *)

ScoreOps == { "HierarchicalLinker.combined_score", "LinkManager.combined_score" }

\* C18: the combined score of a candidate is computed with the configured
\* weights (config.linking.weights) by whichever linker runs.
C18_ScoreUsesConfiguredWeights ==
    op \in ScoreOps =>
        output = compute_combined_score(input.emb, input.kw, input.qty, input.name,
                                        input.id_boost, ConfigWeights)

\* the weights the linker behind the operation passes
WeightsOf(o) == IF o = "LinkManager.combined_score" THEN ConfigWeights ELSE DefaultWeights

\* the tuples that differ from t in one signal, which is not lower
Raised(t) ==
    { [t EXCEPT !.emb = e] : e \in { x \in EmbLevels : x >= t.emb } }
    \cup { [t EXCEPT !.kw = k] : k \in { x \in KwLevels : x >= t.kw } }
    \cup { [t EXCEPT !.qty = q] : q \in { x \in BOOLEAN : t.qty => x } }
    \cup { [t EXCEPT !.name = n] : n \in { x \in NameLevels : x >= t.name } }
    \cup { [t EXCEPT !.id_boost = b] : b \in { x \in BoostLevels : x >= t.id_boost } }

\* C19: the combined score lies in [0,1], and raising one signal with the
\* others held fixed never lowers it.
C19_ScoreMonotoneAndBounded ==
    op \in ScoreOps =>
        /\ output >= 0
        /\ output <= One
        /\ \A y \in Raised(input) :
              compute_combined_score(y.emb, y.kw, y.qty, y.name, y.id_boost, WeightsOf(op))
                  >= output

\* every signal at its highest: the sum of 1.3 is cut to 1.0
C19_Witness ==
    /\ op = "HierarchicalLinker.combined_score"
    /\ input = [emb |-> 100, kw |-> 100, qty |-> TRUE, name |-> 100, id_boost |-> 30]
    /\ output = One

-----------------------------------------------------------------------------
(* The shape of the link collection (SpecLink)                             *)

TypeHierarchy == << "SYSTEM_REQ", "SYSTEM_REQ_DECOMPOSED", "HLR", "LLR", "CODE_VAR" >>

Rank(type) == CHOOSE k \in 1..Len(TypeHierarchy) : TypeHierarchy[k] = type

\* C20: both ends of every link the linker produced are existing artifacts
\* and the target's type is the next after the source's in the hierarchy, so
\* that no link joins an artifact to itself and the links form no cycle.
C20_LinksFollowHierarchy ==
    \A i \in 1..Len(links) :
        /\ links[i].source_id \in ArtifactIds
        /\ links[i].target_id \in ArtifactIds
        /\ Rank(TypeOf(links[i].target_id)) = Rank(TypeOf(links[i].source_id)) + 1
        /\ links[i].source_id # links[i].target_id

\* a finished hierarchical run with a decomposition link, an adjudicated
\* link to an HLR and a link to a variable
C20_Witness ==
    /\ impl = "hierarchical"
    /\ stage = "done"
    /\ \E i, j, k \in 1..Len(links) :
          /\ links[i].link_type = "decomposes"
          /\ TypeOf(links[j].source_id) = "SYSTEM_REQ_DECOMPOSED"
          /\ links[j].method = "multi-signal + llm"
          /\ TypeOf(links[k].target_id) = "CODE_VAR"

-----------------------------------------------------------------------------
(* Properties of the decomposition stage (SpecDecompose)                   *)

\* C21: a step of the decomposition stage only appends to a children list:
\* every child id recorded before the step is still in the list after it.
C21_ChildrenOnlyAppended ==
    [][ op = "decompose_all_system_requirements" =>
            \A s \in DOMAIN children :
                \A k \in 1..Len(children[s]) :
                    \E j \in 1..Len(children'[s]) : children'[s][j] = children[s][k] ]_vars

-----------------------------------------------------------------------------
(* Sources without an embedding (SpecLink)                                 *)

\* C22: a source without a stored embedding gets no candidates whatever the
\* index and the texts would give, no adjudicator call is made for it, no
\* scored link has it as source, and the loop goes on to the next source.
C22_NoEmbeddingNoLink ==
    /\ \A i \in 1..Len(links) :
          links[i].link_type # "decomposes" => links[i].source_id \in embedded
    /\ lastCall.outcome # "none" => lastCall.source \in embedded
    /\ (InLayer /\ phase = "select") => CurrentSource \in embedded
    /\ (InLayer /\ candidates # << >>) => CurrentSource \in embedded

\* the HLRs were passed over without an embedding, and the LLR after them
\* was linked
C22_Witness ==
    /\ stage = "done"
    /\ "HLR-001-A" \notin embedded
    /\ \E i \in 1..Len(links) : links[i].source_id = "SYS-001-A"
    /\ \E i \in 1..Len(links) : links[i].source_id = "LLR-001-A-1"

-----------------------------------------------------------------------------
(* Properties of the graph builders (SpecTrace)                            *)

\* C23: the built graph lists under edges_down[s] the targets of the links
\* with source s and under edges_up[t] the sources of the links with target
\* t, one entry per link in link order, and building it again from the same
\* links gives the same maps.
C23_GraphFromLinks ==
    op = "build_trace_graph" =>
        /\ \A a \in ArtifactIds :
              /\ output.edges_down[a] =
                    [ i \in 1..Len(LinksOf(a)) |-> LinksOf(a)[i].target_id ]
              /\ output.edges_up[a] =
                    [ i \in 1..Len(TargetedAt(links, a)) |-> TargetedAt(links, a)[i].source_id ]
        /\ output = AddEdges(EmptyGraph(ArtifactOrder), links)

\* two links from SYS-001 and the same link to HLR-001-A twice
C23_Witness ==
    /\ op = "build_trace_graph"
    /\ output.edges_down["SYS-001"] = << "SYS-001-A", "SYS-001-B" >>
    /\ output.edges_down["SYS-001-A"] = << "HLR-001-A", "HLR-001-A" >>
    /\ output.edges_up["HLR-001-A"] = << "SYS-001-A", "SYS-001-B", "SYS-001-A" >>

-----------------------------------------------------------------------------
(* Properties of the returned candidate list (SpecCut)                     *)

\* C24: the candidate list returned for a source is sorted by score,
\* highest first, and holds at most min(top_k, max_links_per_source)
\* candidates, top_k being 20 in the hierarchical linker and 10 in
\* LinkManager.
C24_SortedAndCut ==
    op \in { "HierarchicalLinker._find_candidates", "LinkManager.find_candidates" } =>
        /\ \A i \in 1..(Len(output) - 1) : output[i].score >= output[i + 1].score
        /\ Len(output) <= Min(IF op = "LinkManager.find_candidates"
                              THEN LegacyTopK ELSE HierTopK,
                              MaxLinksPerSource)

-----------------------------------------------------------------------------
(* Confidence of the links made without adjudication (SpecLink)            *)

\* the layer a link of the scored layers belongs to, by its source's type
LayerThresholdOf(link) ==
    LayerThreshold(TypeOf(link.source_id), TypeOf(link.target_id))

\* C25: a link of the three scored layers that was created without an
\* adjudicator call has a confidence at or above the threshold configured
\* for its layer.
C25_DirectLinksReachThreshold ==
    (impl = "legacy" \/ lastCall.outcome = "direct") =>
        \A i \in 1..Len(links) :
            ( /\ links[i].link_type # "decomposes"
              /\ impl = "hierarchical" => links[i].source_id = lastCall.source ) =>
                links[i].confidence >= LayerThresholdOf(links[i])

-----------------------------------------------------------------------------
(* Adjudication after a failed call (SpecLink)                             *)

\* C26: once the adjudicator call of a source has failed (its links carry
\* the fallback reason), no adjudicator call is submitted for a later source.
C26_NoCallAfterFailure ==
    (\E i \in 1..Len(links) :
        /\ links[i].llm_reasoning = "LLM unavailable, using multi-signal match"
        /\ links[i].source_id # lastCall.source)
    => lastCall.outcome \notin Outcomes

-----------------------------------------------------------------------------
(* Agreement of the analyzers on complete chains (SpecClassify)            *)

\* C27: a chain of a SYSTEM_REQ that the hierarchical analyzer counts as
\* complete is COMPLETE for classify_chain: it ends at a CODE_VAR and has at
\* least five nodes.
C27_AnalyzersAgreeOnComplete ==
    (op = "_analyze_chains" /\ output = "complete_chains") =>
        /\ classify_chain(input) = "COMPLETE"
        /\ TypeOf(input[Len(input)]) = "CODE_VAR"
        /\ Len(input) >= 5

-----------------------------------------------------------------------------
(* The paths the enumerators return (SpecTrace)                            *)

\* the chain goes from the start node along the links, visits no node twice
\* and ends at a node without outgoing link
PathToLeaf(chain, start_id) ==
    /\ chain # << >>
    /\ chain[1] = start_id
    /\ \A k \in 1..(Len(chain) - 1) :
          \E i \in 1..Len(links) :
              links[i].source_id = chain[k] /\ links[i].target_id = chain[k + 1]
    /\ NoRepeat(chain)
    /\ ~HasOutgoing(chain[Len(chain)])

LinksGoDown ==
    \A i \in 1..Len(links) :
        Rank(TypeOf(links[i].target_id)) > Rank(TypeOf(links[i].source_id))

-----------------------------------------------------------------------------
(* The targets of an adjudicator's selection (SpecCut)                     *)

\* the candidates of the source that score higher than the candidate t
HigherScored(t) ==
    { j \in 1..Len(input) :
        \E i \in 1..Len(input) :
            input[i].target_id = t /\ input[j].score > input[i].score }

\* C29: every target selected from an adjudicator response is one of the at
\* most 10 highest-scoring candidates of the source, and is one the response
\* names; a target id that was not among the submitted candidates is not
\* selected.
C29_SelectedAmongTopTen ==
    (op = "HierarchicalLinker._llm_select_targets" /\ output.outcome = "parsed") =>
        \A k \in 1..Len(output.selected) :
            LET t == output.selected[k].target_id
            IN  /\ \E i \in 1..Min(LlmTopN, Len(output.candidates)) :
                      output.candidates[i].target_id = t
                /\ \E i \in 1..Len(input) : input[i].target_id = t
                /\ Cardinality(HigherScored(t)) < LlmTopN
                /\ \E i \in 1..Len(output.response) : output.response[i].target_id = t
                /\ t # UnknownTarget

\* more than 10 candidates, a response that names with a passing confidence the
\* candidate that was not submitted, an unknown target and a submitted one
C29_Witness ==
    /\ op = "HierarchicalLinker._llm_select_targets"
    /\ output.outcome = "parsed"
    /\ Len(output.candidates) > LlmTopN
    /\ Len(output.response) = 2
    /\ output.response[1].confidence >= LlmConfFloor
    /\ output.response[1].target_id \in
          { output.candidates[LlmTopN + 1].target_id, UnknownTarget }
    /\ output.response[2].confidence >= LlmConfFloor
    /\ output.response[2].target_id = output.candidates[LlmTopN].target_id
    /\ Len(output.selected) = 1

-----------------------------------------------------------------------------
(* The links of one run as a collection of pairs (SpecLink)                *)

\* C30: the links of a run never hold two links with the same source_id and
\* the same target_id, whatever the similarity search and the adjudicator
\* return.
C30_NoDuplicateLinks ==
    \A i, j \in 1..Len(links) :
        (links[i].source_id = links[j].source_id /\ links[i].target_id = links[j].target_id)
            => i = j


====
